---- MODULE Spec2Model ----
(***************************************************************************)
(* A model of test_reporting/junit_xml_parser.py: validation of JUnit XML  *)
(* documents, classification of test cases, and the fold that merges the   *)
(* parsed documents of one archive into a single test result.              *)
(*                                                                         *)
(* Representation.                                                         *)
(*   - An XML element is a record; its attributes are a function from      *)
(*     attribute names to values (a Python dict), so a missing attribute   *)
(*     is a name outside the DOMAIN.                                       *)
(*   - Python dicts are functions; the empty dict is the empty function.   *)
(*   - Numerals (the strings handed to int() and float(), and the strings  *)
(*     str() makes of numbers) are sequences of one-character strings, so  *)
(*     that parsing and printing are computed digit by digit.  A float is  *)
(*     held as an integer count of thousandths.                            *)
(*   - Python's None is the value None below.                              *)
(*   - A raised exception is the name of its class; "" is no exception.    *)
(***************************************************************************)
EXTENDS Integers, Sequences, FiniteSets, TLC

VARIABLES
    mode,              \* "file": one document; "directory": an archive (args.directory)
    strict,            \* args.strict
    doc_list,          \* the documents, in the order the archive loop visits them
    pc,                \* position of the script: "validate", "parse", "done"
    i,                 \* index in doc_list of the next document to validate
    roots,             \* the validated roots collected so far
    metadata_source,   \* index in doc_list of the document that seeded metadata, 0 if none
    metadata,          \* the archive's reference metadata
    raised,            \* the exception that reached the caller, "" if none
    j,                 \* index in roots of the next root to fold
    test_result_json,  \* the aggregate built by parse_test_result
    returned           \* what parse_test_result returned: "" (not yet), "None", "json"

vars == <<mode, strict, doc_list, pc, i, roots, metadata_source, metadata, raised,
          j, test_result_json, returned>>

-----------------------------------------------------------------------------
(* Python values                                                           *)

None == "<None>"

EmptyDict == [k \in {} |-> None]

\* dict.get(key, default)
Get(d, key, default) == IF key \in DOMAIN d THEN d[key] ELSE default

\* d[key] = value on a dict
Put(d, key, value) == [k \in DOMAIN d \cup {key} |-> IF k = key THEN value ELSE d[k]]

Min(a, b) == IF a <= b THEN a ELSE b

-----------------------------------------------------------------------------
(* Constants of the program                                                *)

MAXIMUM_XML_SIZE == 200000000
MAXIMUM_SUMMARY_SIZE == 1024

TESTSUITE_TAG == "testsuite"

\* (attribute, type) pairs; the order is the one the summary merge visits them in
REQUIRED_TESTSUITE_ATTRIBUTES ==
    << <<"time", "float">>, <<"tests", "int">>, <<"skipped", "int">>,
       <<"failures", "int">>, <<"errors", "int">> >>

EXTRA_XML_SUMMARY_ATTRIBUTES == << <<"xfails", "int">> >>

REQUIRED_METADATA_PROPERTIES ==
    <<"topology", "testbed", "timestamp", "host", "asic", "platform", "hwsku", "os_version">>

REQUIRED_TESTCASE_ATTRIBUTES == <<"classname", "file", "line", "name", "time">>

REQUIRED_TESTCASE_PROPERTIES == <<"start", "end">>

Range(s) == {s[n] : n \in DOMAIN s}

-----------------------------------------------------------------------------
(* Numerals: int(), float(), str()                                         *)

Digits == <<"0", "1", "2", "3", "4", "5", "6", "7", "8", "9">>

IsDigit(c) == c \in Range(Digits)

DigitVal(c) == (CHOOSE n \in DOMAIN Digits : Digits[n] = c) - 1

AllDigits(s) == \A n \in DOMAIN s : IsDigit(s[n])

RECURSIVE DigitsToNat(_)
DigitsToNat(s) ==
    IF s = <<>> THEN 0 ELSE 10 * DigitsToNat(SubSeq(s, 1, Len(s) - 1)) + DigitVal(s[Len(s)])

RECURSIVE NatToDigits(_)
NatToDigits(n) ==
    IF n < 10 THEN <<Digits[n + 1]>> ELSE NatToDigits(n \div 10) \o <<Digits[(n % 10) + 1]>>

\* int(s): a result record, err = "" and val the integer, or err = "ValueError"
int(s) ==
    IF s # <<>> /\ AllDigits(s)
    THEN [err |-> "", val |-> DigitsToNat(s)]
    ELSE [err |-> "ValueError", val |-> 0]

\* str(n) of a non-negative int
str_int(n) == NatToDigits(n)

\* position of the first "." of s, 0 if none
DotAt(s) == IF \E n \in DOMAIN s : s[n] = "."
            THEN CHOOSE n \in DOMAIN s : s[n] = "." /\ \A m \in 1..(n - 1) : s[m] # "."
            ELSE 0

\* the thousandths a fraction's digits stand for (at most three digits are held)
FracToMillis(f) ==
    LET padded == SubSeq(f \o <<"0", "0", "0">>, 1, 3) IN DigitsToNat(padded)

\* float(s), in thousandths
float(s) ==
    LET d == DotAt(s)
        whole == IF d = 0 THEN s ELSE SubSeq(s, 1, d - 1)
        frac == IF d = 0 THEN <<>> ELSE SubSeq(s, d + 1, Len(s))
    IN  IF /\ AllDigits(whole) /\ AllDigits(frac)
           /\ (whole # <<>> \/ frac # <<>>)
           /\ Len(frac) <= 3
        THEN [err |-> "", val |-> 1000 * DigitsToNat(whole) + FracToMillis(frac)]
        ELSE [err |-> "ValueError", val |-> 0]

RECURSIVE StripZeros(_)
StripZeros(f) ==
    IF Len(f) > 1 /\ f[Len(f)] = "0" THEN StripZeros(SubSeq(f, 1, Len(f) - 1)) ELSE f

\* str(x) of a non-negative float x held as m thousandths: "2.0", "3.234", "0.5"
str_float(m) ==
    LET r == m % 1000
        f == <<Digits[(r \div 100) + 1], Digits[((r \div 10) % 10) + 1], Digits[(r % 10) + 1]>>
    IN  NatToDigits(m \div 1000) \o <<".">> \o StripZeros(f)

-----------------------------------------------------------------------------
(* Timestamps: datetime.strptime(s, "%Y-%m-%d %H:%M:%S.%f") and str(datetime) *)

RECURSIVE Join(_)
Join(cs) == IF cs = <<>> THEN "" ELSE Head(cs) \o Join(Tail(cs))

\* the seconds a timestamp can carry, and the text before the fraction
Seconds == 0..9
SecondsText(sec) == "2024-01-01 00:00:0" \o Digits[sec + 1]

\* the fractions (digits after the ".") a timestamp text can carry: %f takes 1 to 6
FractionForms == { <<"0">>, <<"5">>, <<"2", "5">>,
                   <<"0", "0", "0", "0", "0", "0">>, <<"5", "0", "0", "0", "0", "0">>,
                   <<"2", "5", "0", "0", "0", "0">> }

\* %f: the digits are the leading digits of the microsecond
Microsecond(f) == DigitsToNat(SubSeq(f \o <<"0", "0", "0", "0", "0">>, 1, 6))

RECURSIVE ZeroPad(_, _)
ZeroPad(ds, width) == IF Len(ds) >= width THEN ds ELSE ZeroPad(<<"0">> \o ds, width)

\* strptime: a datetime [sec, micro], or ValueError when the text is not
\* "<date> <time>.<1 to 6 digits>"
strptime(s) ==
    IF \E sec \in Seconds, f \in FractionForms : s = SecondsText(sec) \o "." \o Join(f)
    THEN LET p == CHOOSE p \in Seconds \X FractionForms :
                      s = SecondsText(p[1]) \o "." \o Join(p[2])
         IN  [err |-> "", val |-> [sec |-> p[1], micro |-> Microsecond(p[2])]]
    ELSE [err |-> "ValueError", val |-> [sec |-> 0, micro |-> 0]]

\* str(datetime): isoformat(sep=" "), which leaves the fraction out when microsecond is 0
str_datetime(dt) ==
    IF dt.micro = 0
    THEN SecondsText(dt.sec)
    ELSE SecondsText(dt.sec) \o "." \o Join(ZeroPad(NatToDigits(dt.micro), 6))

\* min() of two datetimes: the first argument when they are equal
min_datetime(a, b) ==
    IF b.sec < a.sec \/ (b.sec = a.sec /\ b.micro < a.micro) THEN b ELSE a

-----------------------------------------------------------------------------
(* XML elements: [tag, attrib, children]                                   *)

NoElement == [tag |-> None, attrib |-> EmptyDict, children |-> <<>>]

IsNone(e) == e.tag = None

\* bool(element): an element with no children is false
Truthy(e) == ~IsNone(e) /\ Len(e.children) > 0

\* element.find(tag): the first child with that tag, or None
Find(e, tag) ==
    IF \E n \in DOMAIN e.children : e.children[n].tag = tag
    THEN e.children[CHOOSE n \in DOMAIN e.children :
                        /\ e.children[n].tag = tag
                        /\ \A m \in 1..(n - 1) : e.children[m].tag # tag]
    ELSE NoElement

\* element.findall(tag) / element.iterfind(tag): the children with that tag, in order
RECURSIVE FindAll(_, _)
FindAll(cs, tag) ==
    IF cs = <<>> THEN <<>>
    ELSE IF Head(cs).tag = tag THEN <<Head(cs)>> \o FindAll(Tail(cs), tag)
    ELSE FindAll(Tail(cs), tag)

-----------------------------------------------------------------------------
(* Validation of one document                                              *)

\* The scan both property validators run over a properties block: names outside
\* `required` and unnamed properties are passed over, a required name seen twice
\* or carrying no value raises.  Result: [err, seen].
RECURSIVE ScanProperties(_, _, _)
ScanProperties(props, required, seen) ==
    IF props = <<>> THEN [err |-> "", seen |-> seen]
    ELSE LET prop == Head(props)
             property_name == Get(prop.attrib, "name", None)
         IN  IF property_name = None \/ property_name = ""
             THEN ScanProperties(Tail(props), required, seen)
             ELSE IF property_name \notin Range(required)
             THEN ScanProperties(Tail(props), required, seen)
             ELSE IF property_name \in seen
             THEN [err |-> "JUnitXMLValidationError", seen |-> seen]
             ELSE IF Get(prop.attrib, "value", None) = None
             THEN [err |-> "JUnitXMLValidationError", seen |-> seen]
             ELSE ScanProperties(Tail(props), required, seen \cup {property_name})

\* Python's set < set: proper subset
ProperSubset(a, b) == a \subseteq b /\ a # b

\* the root must be a testsuite whose required attributes convert to their types
_validate_test_summary(root) ==
    IF root.tag # TESTSUITE_TAG THEN "JUnitXMLValidationError"
    ELSE IF \E n \in DOMAIN REQUIRED_TESTSUITE_ATTRIBUTES :
                LET xml_field == REQUIRED_TESTSUITE_ATTRIBUTES[n][1]
                    expected_type == REQUIRED_TESTSUITE_ATTRIBUTES[n][2]
                IN  \/ xml_field \notin DOMAIN root.attrib
                    \/ (IF expected_type = "int" THEN int(root.attrib[xml_field])
                                                 ELSE float(root.attrib[xml_field])).err # ""
    THEN "JUnitXMLValidationError"
    ELSE ""

_validate_test_metadata(root) ==
    LET properties_element == Find(root, "properties")
    IN  IF ~Truthy(properties_element) THEN ""
        ELSE LET scan == ScanProperties(FindAll(properties_element.children, "property"),
                                        REQUIRED_METADATA_PROPERTIES, {})
             IN  IF scan.err # "" THEN scan.err
                 ELSE IF ProperSubset(scan.seen, Range(REQUIRED_METADATA_PROPERTIES))
                 THEN "JUnitXMLValidationError"
                 ELSE ""

\* list(missing_testcase_property) is list() of a bool: a TypeError
_validate_test_case_properties(test_case) ==
    LET testcase_properties_element == Find(test_case, "properties")
    IN  IF ~Truthy(testcase_properties_element) THEN ""
        ELSE LET scan == ScanProperties(
                             FindAll(testcase_properties_element.children, "property"),
                             REQUIRED_TESTCASE_PROPERTIES, {})
                 missing_testcase_property ==
                     ProperSubset(scan.seen, Range(REQUIRED_TESTCASE_PROPERTIES))
             IN  IF scan.err # "" THEN scan.err
                 ELSE IF missing_testcase_property THEN "TypeError"
                 ELSE ""

_validate_test_case(test_case) ==
    IF \E n \in DOMAIN REQUIRED_TESTCASE_ATTRIBUTES :
           REQUIRED_TESTCASE_ATTRIBUTES[n] \notin DOMAIN test_case.attrib
    THEN "JUnitXMLValidationError"
    ELSE _validate_test_case_properties(test_case)

\* the first test case that raises decides
RECURSIVE ValidateCases(_)
ValidateCases(cases) ==
    IF cases = <<>> THEN ""
    ELSE LET e == _validate_test_case(Head(cases))
         IN  IF e # "" THEN e ELSE ValidateCases(Tail(cases))

_validate_test_cases(root) == ValidateCases(FindAll(root.children, "testcase"))

_validate_junit_xml(root) ==
    LET s == _validate_test_summary(root)
        m == _validate_test_metadata(root)
    IN  IF s # "" THEN s
        ELSE IF m # "" THEN m
        ELSE _validate_test_cases(root)

\* A document is [size, wellformed, root]: the file's size in bytes, whether
\* ET.parse accepts it, and the root element it yields.
validate_junit_xml_file(document) ==
    IF document.size > MAXIMUM_XML_SIZE THEN "JUnitXMLValidationError"
    ELSE IF ~document.wellformed THEN "JUnitXMLValidationError"
    ELSE _validate_junit_xml(document.root)

-----------------------------------------------------------------------------
(* Parsing of one validated document                                       *)

\* the dict both property parsers build: name -> value for every property
\* with a non-empty value, a later property overwriting an earlier one
RECURSIVE CollectProperties(_, _)
CollectProperties(props, acc) ==
    IF props = <<>> THEN acc
    ELSE LET prop == Head(props)
             value == Get(prop.attrib, "value", None)
         IN  IF value # None /\ value # ""
             THEN CollectProperties(Tail(props), Put(acc, Get(prop.attrib, "name", None), value))
             ELSE CollectProperties(Tail(props), acc)

_parse_test_metadata(root) ==
    LET properties_element == Find(root, "properties")
    IN  IF ~Truthy(properties_element) THEN EmptyDict
        ELSE CollectProperties(FindAll(properties_element.children, "property"), EmptyDict)

_parse_testcase_properties(root) ==
    LET testcase_properties_element == Find(root, "properties")
    IN  IF ~Truthy(testcase_properties_element) THEN EmptyDict
        ELSE CollectProperties(FindAll(testcase_properties_element.children, "property"),
                               EmptyDict)

\* classname.split(".")[0]
Feature(classname) ==
    LET d == DotAt(classname)
    IN  Join(IF d = 0 THEN classname ELSE SubSeq(classname, 1, d - 1))

\* "xfail_" when the case's properties block is true and holds a property named xfail
XfailCase(test_case) ==
    LET properties_element == Find(test_case, "properties")
    IN  IF /\ Truthy(properties_element)
           /\ \E n \in DOMAIN properties_element.children :
                  /\ properties_element.children[n].tag = "property"
                  /\ Get(properties_element.children[n].attrib, "name", None) = "xfail"
        THEN "xfail_" ELSE ""

\* a slip that would let an error node decide ahead of a skipped node
ResultOfErrorFirst(failure, skipped, error) ==
    IF ~IsNone(failure) THEN "failure"
    ELSE IF ~IsNone(error) THEN "error"
    ELSE IF ~IsNone(skipped) THEN "skipped"
    ELSE "success"

\* the marker node that decides the result: failure, else skipped, else error
ResultOf(failure, skipped, error) ==
    IF ~IsNone(failure) THEN "failure"
    ELSE IF ~IsNone(skipped) THEN "skipped"
    ELSE IF ~IsNone(error) THEN "error"
    ELSE "success"

\* the parsed case: a dict of the required attributes, the timing properties
\* that are present, result, summary and error
_parse_test_case(test_case) ==
    LET testcase_properties == _parse_testcase_properties(test_case)
        timing == {a \in Range(REQUIRED_TESTCASE_PROPERTIES) : a \in DOMAIN testcase_properties}
        failure == Find(test_case, "failure")
        error == Find(test_case, "error")
        skipped == Find(test_case, "skipped")
        label == ResultOf(failure, skipped, error)
        summary == IF label = "failure" THEN Get(failure.attrib, "message", <<>>)
                   ELSE IF label = "skipped" THEN Get(skipped.attrib, "message", <<>>)
                   ELSE IF label = "error" THEN Get(error.attrib, "message", <<>>)
                   ELSE <<>>
    IN  [k \in Range(REQUIRED_TESTCASE_ATTRIBUTES) \cup timing \cup {"result", "summary", "error"} |->
            IF k = "result" THEN XfailCase(test_case) \o label
            ELSE IF k = "summary"
                 THEN SubSeq(summary, 1, Min(Len(summary), MAXIMUM_SUMMARY_SIZE))
            ELSE IF k = "error" THEN ~IsNone(error)
            ELSE IF k \in timing THEN testcase_properties[k]
            ELSE Get(test_case.attrib, k, None)]

\* test_case_results[feature].append(result), one test case after the other
RECURSIVE GroupCases(_, _)
GroupCases(cases, acc) ==
    IF cases = <<>> THEN acc
    ELSE LET feature == Feature(Head(cases).attrib["classname"])
             result == _parse_test_case(Head(cases))
         IN  GroupCases(Tail(cases),
                        Put(acc, feature, Append(Get(acc, feature, <<>>), result)))

_parse_test_cases(root) == GroupCases(FindAll(root.children, "testcase"), EmptyDict)

-----------------------------------------------------------------------------
(* The per-document summary                                                *)

\* every parsed case of a feature -> cases mapping, as (feature, index) places
Places(test_cases) ==
    UNION {{<<f, n>> : n \in DOMAIN test_cases[f]} : f \in DOMAIN test_cases}

CaseAt(test_cases, p) == test_cases[p[1]][p[2]]

RECURSIVE SumTime(_, _)
SumTime(test_cases, places) ==
    IF places = {} THEN 0
    ELSE LET p == CHOOSE p \in places : TRUE
         IN  float(CaseAt(test_cases, p)["time"]).val + SumTime(test_cases, places \ {p})

\* a slip that would count the error flag as a failure too
IsFailureOrErrorFlag(case) ==
    case["result"] = "failure" \/ case["result"] = "error" \/ case["error"]

IsFailure(case) == case["result"] = "failure" \/ case["result"] = "error"
IsSkipped(case) == case["result"] = "skipped"
IsError(case) == case["error"]
IsXfail(case) == case["result"] \in {"xfail_failure", "xfail_error", "xfail_skipped",
                                     "xfail_success"}
\* a slip that would leave the skipped cases out of the count of tests
IsNotSkipped(case) == case["result"] # "skipped"

IsTest(case) == TRUE

\* [err, val]: the dict of counters as strings, the empty dict when there is no
\* case; ValueError when a case's time is no float
_extract_test_summary(test_cases) ==
    LET places == Places(test_cases)
    IN  IF \E p \in places : float(CaseAt(test_cases, p)["time"]).err # ""
        THEN [err |-> "ValueError", val |-> EmptyDict]
        ELSE IF places = {} THEN [err |-> "", val |-> EmptyDict]
        ELSE [err |-> "",
              val |-> [k \in {"tests", "failures", "skipped", "errors", "time", "xfails"} |->
                  IF k = "tests" THEN str_int(Cardinality({p \in places : IsTest(CaseAt(test_cases, p))}))
                  ELSE IF k = "failures" THEN str_int(Cardinality({p \in places : IsFailure(CaseAt(test_cases, p))}))
                  ELSE IF k = "skipped" THEN str_int(Cardinality({p \in places : IsSkipped(CaseAt(test_cases, p))}))
                  ELSE IF k = "errors" THEN str_int(Cardinality({p \in places : IsError(CaseAt(test_cases, p))}))
                  ELSE IF k = "xfails" THEN str_int(Cardinality({p \in places : IsXfail(CaseAt(test_cases, p))}))
                  ELSE str_float(SumTime(test_cases, places))]]

-----------------------------------------------------------------------------
(* The fold of parse_test_result                                           *)

\* attr_type(d.get(attribute, 0)): [err, val]
Convert(attr_type, d, attribute) ==
    IF attribute \notin DOMAIN d THEN [err |-> "", val |-> 0]
    ELSE IF attr_type = "int" THEN int(d[attribute])
    ELSE float(d[attribute])

\* a slip that would join the two numerals instead of adding the numbers
StrConcat(attr_type, a, b) ==
    IF attr_type = "int" THEN str_int(a) \o str_int(b) ELSE str_float(a) \o str_float(b)

\* str(round(a + b, 3)): a float is held in thousandths, which round(_, 3) keeps
StrSum(attr_type, a, b) == IF attr_type = "int" THEN str_int(a + b) ELSE str_float(a + b)

\* [err, val]
_update_test_summary(current, update) ==
    IF DOMAIN current = {} THEN [err |-> "", val |-> update]
    ELSE LET attributes == REQUIRED_TESTSUITE_ATTRIBUTES \o EXTRA_XML_SUMMARY_ATTRIBUTES
         IN  IF \E n \in DOMAIN attributes :
                    \/ Convert(attributes[n][2], current, attributes[n][1]).err # ""
                    \/ Convert(attributes[n][2], update, attributes[n][1]).err # ""
             THEN [err |-> "ValueError", val |-> EmptyDict]
             ELSE [err |-> "",
                   val |-> [k \in {attributes[n][1] : n \in DOMAIN attributes} |->
                       LET t == attributes[CHOOSE n \in DOMAIN attributes :
                                               attributes[n][1] = k][2]
                       IN  StrSum(t, Convert(t, current, k).val, Convert(t, update, k).val)]]

\* Case 3 of _update_test_metadata, one required property after the other:
\* the first missing key (KeyError) or unparsable timestamp (ValueError) raises
RECURSIVE MergeMetadata(_, _, _, _)
MergeMetadata(props, current, update, new_metadata) ==
    IF props = <<>> THEN [err |-> "", val |-> new_metadata]
    ELSE LET prop == Head(props)
         IN  IF prop = "timestamp"
             THEN IF prop \notin DOMAIN current THEN [err |-> "KeyError", val |-> EmptyDict]
                  ELSE IF strptime(current[prop]).err # ""
                  THEN [err |-> "ValueError", val |-> EmptyDict]
                  ELSE IF prop \notin DOMAIN update THEN [err |-> "KeyError", val |-> EmptyDict]
                  ELSE IF strptime(update[prop]).err # ""
                  THEN [err |-> "ValueError", val |-> EmptyDict]
                  ELSE MergeMetadata(Tail(props), current, update,
                           Put(new_metadata, prop,
                               str_datetime(min_datetime(strptime(current[prop]).val,
                                                         strptime(update[prop]).val))))
             ELSE IF prop \notin DOMAIN update THEN [err |-> "KeyError", val |-> EmptyDict]
                  ELSE MergeMetadata(Tail(props), current, update,
                                     Put(new_metadata, prop, update[prop]))

\* a slip that would keep what the aggregate holds
KeepCurrentMetadata(current, update) ==
    IF DOMAIN current = {} THEN [err |-> "", val |-> update] ELSE [err |-> "", val |-> current]

\* [err, val]
_update_test_metadata(current, update) ==
    IF DOMAIN current = {} THEN [err |-> "", val |-> update]
    ELSE IF DOMAIN update = {} THEN [err |-> "", val |-> current]
    ELSE MergeMetadata(REQUIRED_METADATA_PROPERTIES, current, update, EmptyDict)

\* the cases of one group after the merge
MergedGroup(current, update, group) ==
    IF group \in DOMAIN update
    THEN update[group] \o Get(current, group, <<>>)
    ELSE current[group]

_update_test_cases(current, update) ==
    IF DOMAIN current = {} THEN update
    ELSE [group \in DOMAIN current \cup DOMAIN update |-> MergedGroup(current, update, group)]

-----------------------------------------------------------------------------
(* The archive loop of validate_junit_xml_archive                          *)

\* the metadata the archive compares: the required properties but the timestamp
RootMetadata(root) ==
    LET parsed == _parse_test_metadata(root)
    IN  [k \in {k \in DOMAIN parsed : k \in Range(REQUIRED_METADATA_PROPERTIES) /\ k # "timestamp"}
            |-> parsed[k]]

\* a slip that would raise in lenient mode too
ReraiseAlways(strict_, e) == IF TRUE THEN "JUnitXMLValidationError" ELSE strict_

\* what the except clause of the loop raises for an exception caught in the body
Reraise(strict_, e) == IF strict_ THEN "JUnitXMLValidationError" ELSE ""

RECURSIVE TotalSize(_)
TotalSize(docs) == IF docs = <<>> THEN 0 ELSE Head(docs).size + TotalSize(Tail(docs))

-----------------------------------------------------------------------------
(* The script: validation of a file or an archive, then parse_test_result  *)

EmptyResult == [test_metadata |-> EmptyDict, test_cases |-> EmptyDict, test_summary |-> EmptyDict]

\* roots = [validate_junit_xml_file(args.file_name)]
ValidateFile ==
    /\ pc = "start" /\ mode = "file"
    /\ LET e == validate_junit_xml_file(doc_list[1])
       IN  IF e # ""
           THEN /\ raised' = e
                /\ pc' = "done"
                /\ roots' = roots
           ELSE /\ roots' = <<doc_list[1].root>>
                /\ pc' = "parse"
                /\ raised' = raised
    /\ UNCHANGED <<mode, strict, doc_list, i, metadata_source, metadata, j,
                   test_result_json, returned>>

\* validate_junit_xml_archive up to its loop: the size of the whole archive
ArchiveBegin ==
    /\ pc = "start" /\ mode = "directory"
    /\ IF TotalSize(doc_list) > MAXIMUM_XML_SIZE
       THEN raised' = "JUnitXMLValidationError" /\ pc' = "done"
       ELSE raised' = raised /\ pc' = "archive"
    /\ UNCHANGED <<mode, strict, doc_list, i, roots, metadata_source, metadata, j,
                   test_result_json, returned>>

\* one pass of the loop over doc_list
ArchiveDocument ==
    /\ pc = "archive" /\ i <= Len(doc_list)
    /\ LET document == doc_list[i]
           e == validate_junit_xml_file(document)
           root_metadata == RootMetadata(document.root)
           compared == e = "" /\ DOMAIN root_metadata # {}
           seeds == compared /\ metadata_source = 0
           reference == IF seeds THEN root_metadata ELSE metadata
           differs == compared /\ root_metadata # reference
           caught == IF e # "" THEN e ELSE IF differs THEN "JUnitXMLValidationError" ELSE ""
       IN  /\ metadata_source' = IF seeds THEN i ELSE metadata_source
           /\ metadata' = reference
           /\ IF caught = ""
              THEN /\ roots' = Append(roots, document.root)
                   /\ i' = i + 1
                   /\ UNCHANGED <<raised, pc>>
              ELSE IF Reraise(strict, caught) # ""
              THEN /\ raised' = Reraise(strict, caught)
                   /\ pc' = "done"
                   /\ UNCHANGED <<roots, i>>
              ELSE /\ i' = i + 1
                   /\ UNCHANGED <<roots, raised, pc>>
    /\ UNCHANGED <<mode, strict, doc_list, j, test_result_json, returned>>

\* return roots
ArchiveReturn ==
    /\ pc = "archive" /\ i > Len(doc_list)
    /\ pc' = "parse"
    /\ UNCHANGED <<mode, strict, doc_list, i, roots, metadata_source, metadata, raised, j,
                   test_result_json, returned>>

\* one pass of the loop of parse_test_result: [err, val], val the aggregate with
\* the root folded in
FoldRoot(result, root) ==
    LET m == _update_test_metadata(result.test_metadata, _parse_test_metadata(root))
        test_cases == _parse_test_cases(root)
        extracted == _extract_test_summary(test_cases)
        s == _update_test_summary(result.test_summary, extracted.val)
    IN  IF m.err # "" THEN [err |-> m.err, val |-> result]
        ELSE IF extracted.err # "" THEN [err |-> extracted.err, val |-> result]
        ELSE IF s.err # "" THEN [err |-> s.err, val |-> result]
        ELSE [err |-> "",
              val |-> [test_metadata |-> m.val,
                       test_cases |-> _update_test_cases(result.test_cases, test_cases),
                       test_summary |-> s.val]]

ParseRoot ==
    /\ pc = "parse" /\ j <= Len(roots)
    /\ LET r == FoldRoot(test_result_json, roots[j])
       IN  IF r.err # ""
           THEN /\ raised' = r.err
                /\ pc' = "done"
                /\ UNCHANGED <<j, test_result_json>>
           ELSE /\ test_result_json' = r.val
                /\ j' = j + 1
                /\ UNCHANGED <<raised, pc>>
    /\ UNCHANGED <<mode, strict, doc_list, i, roots, metadata_source, metadata, returned>>

\* parse_test_result returns: None when there was no root, else the aggregate
ParseReturn ==
    /\ pc = "parse" /\ j > Len(roots)
    /\ returned' = IF roots = <<>> THEN "None" ELSE "json"
    /\ pc' = "done"
    /\ UNCHANGED <<mode, strict, doc_list, i, roots, metadata_source, metadata, raised, j,
                   test_result_json>>

Next == ValidateFile \/ ArchiveBegin \/ ArchiveDocument \/ ArchiveReturn \/ ParseRoot \/ ParseReturn

\* a caller that hands parse_test_result the roots it validated itself
NextFold == ParseRoot \/ ParseReturn

-----------------------------------------------------------------------------
(* Inputs: the documents the specifications below draw from                *)

MaxDocs == 3
MaxCases == 2

Element(tag, attrib, children) == [tag |-> tag, attrib |-> attrib, children |-> children]

Property(name, value) == Element("property", [name |-> name, value |-> value], <<>>)
Unnamed(value) == Element("property", [value |-> value], <<>>)
Valueless(name) == Element("property", [name |-> name], <<>>)

Properties(props) == Element("properties", EmptyDict, props)

\* a full metadata block: every required property once, in the required order
MetaBlock(testbed, timestamp) ==
    [n \in DOMAIN REQUIRED_METADATA_PROPERTIES |->
        LET name == REQUIRED_METADATA_PROPERTIES[n]
        IN  Property(name, IF name = "testbed" THEN testbed
                           ELSE IF name = "timestamp" THEN timestamp
                           ELSE "v")]

Marker(tag) == Element(tag, [message |-> <<"m", "s", "g">>], <<>>)

TestCase(classname, time, children) ==
    Element("testcase",
            [classname |-> classname, file |-> "t.py", line |-> "7", name |-> "test", time |-> time],
            children)

SuiteAttrib == [time |-> <<"9", ".", "5">>, tests |-> <<"4">>, skipped |-> <<"1">>,
                failures |-> <<"1">>, errors |-> <<"0">>]

Testsuite(children) == Element(TESTSUITE_TAG, SuiteAttrib, children)

Document(root) == [size |-> 1000, wellformed |-> TRUE, root |-> root]

\* all sequences over S of length at most n
SeqsUpTo(S, n) == UNION {[1..k -> S] : k \in 0..n}

\* s with x put in at position n (1 .. Len(s) + 1), and s without its n-th element
InsertAt(s, n, x) == SubSeq(s, 1, n - 1) \o <<x>> \o SubSeq(s, n, Len(s))
RemoveAt(s, n) == SubSeq(s, 1, n - 1) \o SubSeq(s, n + 1, Len(s))

\* the one-to-one sequences over S: every order of every subset
Arrangements(S) == {s \in SeqsUpTo(S, Cardinality(S)) : \A a, b \in DOMAIN s : a # b => s[a] # s[b]}

StartEnd == <<Property("start", "10:00"), Property("end", "10:01")>>

\* the properties blocks of a test case
CaseBlocks == { Properties(<<>>),
                Properties(<<Property("xfail", "true")>>),
                Properties(StartEnd),
                Properties(<<Property("xfail", "true")>> \o StartEnd),
                Properties(StartEnd \o <<Property("xfail", "true")>>),
                Properties(<<Property("start", "10:00")>>),
                Properties(<<Valueless("xfail")>> \o StartEnd),
                Properties(<<Property("start", "10:00"), Property("start", "10:02")>>),
                Properties(<<Property("start", "10:00"), Valueless("end")>>) }

\* the children of a test case: marker nodes in every order, with or without a
\* properties block at every place among them
CaseChildren ==
    LET markers == Arrangements({Marker("failure"), Marker("skipped"), Marker("error")})
    IN  markers \cup
        {InsertAt(m, n, b) : <<m, n, b>> \in
            {t \in markers \X (1..4) \X CaseBlocks : t[2] <= Len(t[1]) + 1}}

GoodMeta == Properties(MetaBlock("lab1", "2024-01-01 00:00:01.5"))

\* a test case by the markers it carries
Combo(classname, time, f, s, e, x) ==
    TestCase(classname, time,
             (IF f THEN <<Marker("failure")>> ELSE <<>>) \o
             (IF s THEN <<Marker("skipped")>> ELSE <<>>) \o
             (IF e THEN <<Marker("error")>> ELSE <<>>) \o
             (IF x THEN <<Properties(<<Property("xfail", "true")>> \o StartEnd)>> ELSE <<>>))

ClassA == <<"a", ".", "T">>
ClassB == <<"b", "g", "p", ".", "t", ".", "T">>

\* the test cases the per-document summary is checked on
SummaryCases ==
    {Combo(ClassA, <<"1", ".", "5">>, f, s, e, x) : f, s, e, x \in BOOLEAN} \cup
    { Combo(ClassB, <<"0", ".", "2", "5">>, FALSE, TRUE, TRUE, FALSE),
      Combo(ClassB, <<"2">>, TRUE, FALSE, FALSE, TRUE),
      Combo(ClassB, <<"x">>, FALSE, FALSE, FALSE, FALSE) }

SimpleCase == Combo(ClassA, <<"1", ".", "5">>, FALSE, FALSE, FALSE, FALSE)

\* the properties blocks of a root: the full block with one property left out
\* (or none), and one more property put in at some place (or none)
MetaExtras == { Property("testbed", "lab9"), Valueless("host"), Property("color", "red"),
                Unnamed("v"), Property("asic", ""), Property("", "v") }

MetaBlocks ==
    LET full == MetaBlock("lab1", "2024-01-01 00:00:01.5")
        cut == {full} \cup {RemoveAt(full, n) : n \in DOMAIN full}
    IN  cut \cup {<<>>} \cup {<<x>> : x \in MetaExtras} \cup
        {InsertAt(t[1], t[2], t[3]) :
            t \in {u \in cut \X (1..(Len(REQUIRED_METADATA_PROPERTIES) + 1)) \X MetaExtras :
                       u[2] <= Len(u[1]) + 1}}

\* documents that fail before their properties are looked at
BrokenDocs ==
    { [size |-> 1000, wellformed |-> FALSE, root |-> Testsuite(<<GoodMeta, SimpleCase>>)],
      [size |-> MAXIMUM_XML_SIZE + 1, wellformed |-> TRUE,
       root |-> Testsuite(<<GoodMeta, SimpleCase>>)],
      Document(Element("testsuites", SuiteAttrib, <<GoodMeta, SimpleCase>>)),
      Document(Element(TESTSUITE_TAG, [time |-> <<"1">>, tests |-> <<"4">>], <<GoodMeta>>)),
      Document(Element(TESTSUITE_TAG, [SuiteAttrib EXCEPT !["tests"] = <<"4", ".", "0">>],
                       <<GoodMeta>>)),
      Document(Testsuite(<<GoodMeta,
          Element("testcase", [classname |-> ClassA, name |-> "test"], <<>>)>>)) }

\* single documents: every test case shape, every summary, every metadata block
SingleDocs ==
    {Document(Testsuite(<<GoodMeta, TestCase(ClassA, <<"1", ".", "5">>, ch)>>)) :
        ch \in CaseChildren} \cup
    {Document(Testsuite(<<GoodMeta>> \o cases)) : cases \in SeqsUpTo(SummaryCases, MaxCases)} \cup
    {Document(Testsuite(<<Properties(b), SimpleCase>>)) : b \in MetaBlocks} \cup
    {Document(Testsuite(<<SimpleCase>>))} \cup
    BrokenDocs

InitScript(docs) ==
    /\ doc_list \in docs
    /\ mode \in {"file", "directory"}
    /\ strict \in BOOLEAN
    /\ mode = "file" => Len(doc_list) = 1 /\ ~strict
    /\ pc = "start"
    /\ i = 1
    /\ roots = <<>>
    /\ metadata_source = 0
    /\ metadata = EmptyDict
    /\ raised = ""
    /\ j = 1
    /\ test_result_json = EmptyResult
    /\ returned = ""

InitDocument == InitScript({<<d>> : d \in SingleDocs})

\* one document handed to the script, as a file or as an archive of one
SpecDocument == InitDocument /\ [][Next]_vars

\* the documents of an archive: two that agree but for the timestamp, one from
\* another testbed, one without metadata, a large one, and four that fail
\* validation
ArchiveDocs ==
    { Document(Testsuite(<<Properties(MetaBlock("lab1", "2024-01-01 00:00:01.5")),
                           Combo(ClassA, <<"1", ".", "2", "3", "4">>, TRUE, FALSE, FALSE, FALSE)>>)),
      Document(Testsuite(<<Properties(MetaBlock("lab1", "2024-01-01 00:00:00.5")),
                           Combo(ClassA, <<"2", ".", "0">>, FALSE, FALSE, FALSE, FALSE),
                           Combo(ClassB, <<"0", ".", "5">>, FALSE, TRUE, TRUE, FALSE)>>)),
      Document(Testsuite(<<Properties(MetaBlock("lab2", "2024-01-01 00:00:02.25")),
                           Combo(ClassB, <<"1", ".", "5">>, FALSE, FALSE, FALSE, TRUE)>>)),
      Document(Testsuite(<<Combo(ClassA, <<"0", ".", "2", "5">>, FALSE, TRUE, FALSE, FALSE)>>)),
      [size |-> 150000000, wellformed |-> TRUE,
       root |-> Testsuite(<<Properties(MetaBlock("lab1", "2024-01-01 00:00:01.5")), SimpleCase>>)],
      [size |-> 1000, wellformed |-> FALSE, root |-> Testsuite(<<GoodMeta, SimpleCase>>)],
      Document(Element("testsuites", SuiteAttrib, <<GoodMeta, SimpleCase>>)),
      Document(Testsuite(<<Properties(RemoveAt(MetaBlock("lab1", "2024-01-01 00:00:01.5"), 4)),
                           SimpleCase>>)),
      Document(Testsuite(<<GoodMeta,
          TestCase(ClassA, <<"1", ".", "5">>, <<Properties(<<Property("xfail", "true")>>)>>)>>)) }

Init == InitScript(SeqsUpTo(ArchiveDocs, MaxDocs))

\* the script on an archive of up to MaxDocs documents, or on one file
Spec == Init /\ [][Next]_vars

\* five cases, one of them failed, 1.234 s in all; and five cases, one of them
\* failed, 2.000 s in all
FiveCasesA ==
    << Combo(ClassA, <<"1", ".", "0">>, TRUE, FALSE, FALSE, FALSE),
       Combo(ClassA, <<"0", ".", "2">>, FALSE, FALSE, FALSE, FALSE),
       Combo(ClassB, <<"0", ".", "0", "3">>, FALSE, FALSE, FALSE, FALSE),
       Combo(ClassA, <<"0", ".", "0", "0", "4">>, FALSE, FALSE, FALSE, FALSE),
       Combo(ClassB, <<"0">>, FALSE, FALSE, FALSE, FALSE) >>

FiveCasesB ==
    << Combo(ClassB, <<"0", ".", "5">>, FALSE, FALSE, FALSE, FALSE),
       Combo(ClassA, <<"0", ".", "5">>, TRUE, FALSE, FALSE, FALSE),
       Combo(ClassA, <<"0", ".", "5">>, FALSE, FALSE, FALSE, FALSE),
       Combo(ClassB, <<"0", ".", "2", "5">>, FALSE, FALSE, FALSE, FALSE),
       Combo(ClassB, <<".", "2", "5">>, FALSE, FALSE, FALSE, FALSE) >>

TwoCases ==
    << Combo(ClassA, <<"2", ".", "0">>, FALSE, FALSE, FALSE, TRUE),
       Combo(ClassB, <<"0", ".", "7", "5">>, FALSE, TRUE, TRUE, FALSE) >>

OneCase == << Combo(ClassA, <<"1", "2", ".", "5">>, FALSE, FALSE, TRUE, FALSE) >>

\* the documents a caller folds: with and without metadata, from two testbeds,
\* with timestamps on and off the whole second, and one that strptime rejects
FoldDocs ==
    { Document(Testsuite(<<>>)),
      Document(Testsuite(TwoCases)),
      Document(Testsuite(<<Properties(MetaBlock("lab1", "2024-01-01 00:00:00.000000"))>>
                         \o FiveCasesA)),
      Document(Testsuite(<<Properties(MetaBlock("lab1", "2024-01-01 00:00:01.5"))>>
                         \o FiveCasesB)),
      Document(Testsuite(<<Properties(MetaBlock("lab1", "2024-01-01 00:00:00.5"))>>
                         \o TwoCases)),
      Document(Testsuite(<<Properties(MetaBlock("lab2", "2024-01-01 00:00:02.25"))>>
                         \o FiveCasesA)),
      Document(Testsuite(<<Properties(MetaBlock("lab2", "2024-01-01 00:00:00.0"))>>)),
      Document(Testsuite(<<Properties(MetaBlock("lab1", "2024-01-01 00:00:03"))>>
                         \o TwoCases)),
      Document(Testsuite(<<Properties(MetaBlock("lab1", "2024-01-01 00:00:01.5"))>>
                         \o OneCase)) }

\* the roots of the documents validate_junit_xml_file returns a root for
FoldRoots == {d.root : d \in {d \in FoldDocs : validate_junit_xml_file(d) = ""}}

InitFold ==
    /\ mode = "roots"
    /\ strict = FALSE
    /\ doc_list = <<>>
    /\ pc = "parse"
    /\ i = 1
    /\ roots \in SeqsUpTo(FoldRoots, MaxDocs)
    /\ metadata_source = 0
    /\ metadata = EmptyDict
    /\ raised = ""
    /\ j = 1
    /\ test_result_json = EmptyResult
    /\ returned = ""

\* parse_test_result on up to MaxDocs roots its caller validated one by one
SpecFold == InitFold /\ [][NextFold]_vars

\* a properties block with the value of one property replaced
Revalued(block, name, value) ==
    [n \in DOMAIN block |->
        IF Get(block[n].attrib, "name", None) = name THEN Property(name, value) ELSE block[n]]

\* the documents of a test run: the full metadata with a property that is not a
\* required one, required properties with value="", no metadata, another
\* testbed, and one that is not well formed
AcceptedDocs ==
    { Document(Testsuite(<<Properties(Append(MetaBlock("lab1", "2024-01-01 00:00:00.5"),
                                             Property("color", "red"))),
                           SimpleCase>>)),
      Document(Testsuite(<<Properties(<<Unnamed("u")>> \o
                                      MetaBlock("lab1", "2024-01-01 00:00:01.5"))>>
                         \o TwoCases)),
      Document(Testsuite(<<Properties(Revalued(MetaBlock("lab1", "2024-01-01 00:00:00.25"),
                                               "asic", ""))>>
                         \o OneCase)),
      Document(Testsuite(<<Properties(Revalued(MetaBlock("lab1", "2024-01-01 00:00:02.25"),
                                               "asic", "")),
                           SimpleCase>>)),
      Document(Testsuite(<<Properties(MetaBlock("lab1", "")), SimpleCase>>)),
      Document(Testsuite(<<SimpleCase>>)),
      Document(Testsuite(<<Properties(MetaBlock("lab2", "2024-01-01 00:00:03.25")),
                           SimpleCase>>)),
      [size |-> 1000, wellformed |-> FALSE, root |-> Testsuite(<<GoodMeta, SimpleCase>>)] }

InitAccepted == InitScript(SeqsUpTo(AcceptedDocs, MaxDocs))

\* the script on the documents of a test run: what validation accepts is folded
SpecAccepted == InitAccepted /\ [][Next]_vars

-----------------------------------------------------------------------------
(* Claims about one document                                               *)

TestCasesOf(root) == FindAll(root.children, "testcase")

HasChild(e, tag) == \E n \in DOMAIN e.children : e.children[n].tag = tag

\* some properties block of the case holds a property named xfail
HasXfailProperty(test_case) ==
    \E n \in DOMAIN test_case.children :
        /\ test_case.children[n].tag = "properties"
        /\ \E m \in DOMAIN test_case.children[n].children :
               /\ test_case.children[n].children[m].tag = "property"
               /\ "name" \in DOMAIN test_case.children[n].children[m].attrib
               /\ test_case.children[n].children[m].attrib["name"] = "xfail"

\* the label the fixed order failure, skipped, error, success gives
ExpectedResult(f, s, e, x) ==
    (IF x THEN "xfail_" ELSE "") \o
    (IF f THEN "failure" ELSE IF s THEN "skipped" ELSE IF e THEN "error" ELSE "success")

Classified(test_case, parsed) ==
    /\ parsed["result"] = ExpectedResult(HasChild(test_case, "failure"),
                                         HasChild(test_case, "skipped"),
                                         HasChild(test_case, "error"),
                                         HasXfailProperty(test_case))
    /\ parsed["error"] = HasChild(test_case, "error")

\* the parsed cases of an aggregate, whatever their feature
ParsedCases(test_cases) == {CaseAt(test_cases, p) : p \in Places(test_cases)}

\* C1: every test case, whatever markers it carries and in whatever order its
\* children come, is classified as prefix + the first of failure, skipped, error,
\* success, with the error flag true iff it has an error node; and that is the
\* result and flag the parsed document holds for it.
C1_Classification ==
    /\ \A n \in DOMAIN doc_list : \A m \in DOMAIN TestCasesOf(doc_list[n].root) :
           Classified(TestCasesOf(doc_list[n].root)[m],
                      _parse_test_case(TestCasesOf(doc_list[n].root)[m]))
    /\ (returned = "json" /\ Len(TestCasesOf(roots[1])) = 1) =>
           /\ Cardinality(Places(test_result_json.test_cases)) = 1
           /\ \A c \in ParsedCases(test_result_json.test_cases) :
                  Classified(TestCasesOf(roots[1])[1], c)

ChildTags(e) == [n \in DOMAIN e.children |-> e.children[n].tag]

\* an error node ahead of a failure node: ("failure", true)
C1_Witness ==
    /\ returned = "json"
    /\ Len(TestCasesOf(roots[1])) = 1
    /\ ChildTags(TestCasesOf(roots[1])[1]) = <<"error", "failure">>
    /\ \E c \in ParsedCases(test_result_json.test_cases) :
           c["result"] = "failure" /\ c["error"] = TRUE

\* a skipped node under an xfail property: ("xfail_skipped", false)
C1_WitnessXfailSkipped ==
    /\ returned = "json"
    /\ Len(TestCasesOf(roots[1])) = 1
    /\ ChildTags(TestCasesOf(roots[1])[1]) = <<"skipped", "properties">>
    /\ \E c \in ParsedCases(test_result_json.test_cases) :
           c["result"] = "xfail_skipped" /\ c["error"] = FALSE

\* the document is sound up to the timing properties of its cases: its size,
\* its root, its metadata, the attributes of its cases, and no timing property
\* twice or without a value
SoundButTiming(document) ==
    /\ document.size <= MAXIMUM_XML_SIZE
    /\ document.wellformed
    /\ _validate_test_summary(document.root) = ""
    /\ _validate_test_metadata(document.root) = ""
    /\ \A n \in DOMAIN TestCasesOf(document.root) :
           LET test_case == TestCasesOf(document.root)[n]
           IN  /\ Range(REQUIRED_TESTCASE_ATTRIBUTES) \subseteq DOMAIN test_case.attrib
               /\ \A b \in DOMAIN test_case.children :
                      test_case.children[b].tag = "properties" =>
                          ScanProperties(FindAll(test_case.children[b].children, "property"),
                                         REQUIRED_TESTCASE_PROPERTIES, {}).err = ""

\* a case of the document has a properties block without "start" or without "end"
LacksTiming(document) ==
    \E n \in DOMAIN TestCasesOf(document.root) :
        \E b \in DOMAIN TestCasesOf(document.root)[n].children :
            LET block == TestCasesOf(document.root)[n].children[b]
            IN  /\ block.tag = "properties"
                /\ block.children # <<>>
                /\ \E t \in Range(REQUIRED_TESTCASE_PROPERTIES) :
                       \A m \in DOMAIN block.children :
                           Get(block.children[m].attrib, "name", None) # t

\* what validate_junit_xml_file raised for the file the script was given ("" when
\* it returned the root); read once the script is past validation
FileValidated == mode = "file" /\ pc # "start"
ValidationRaised == IF roots # <<>> THEN "" ELSE raised

\* C5: a document whose only shortcoming is a test case properties block that
\* lacks "start" or "end" validates: no exception reaches the caller.
C5_MissingTimingTolerated ==
    (FileValidated /\ SoundButTiming(doc_list[1]) /\ LacksTiming(doc_list[1]))
        => ValidationRaised = ""

\* every required metadata key is the name of exactly one property of the block,
\* and that property has a value
ExactlyOnceWithValue(block) ==
    \A k \in Range(REQUIRED_METADATA_PROPERTIES) :
        /\ Cardinality({m \in DOMAIN block.children :
                            /\ block.children[m].tag = "property"
                            /\ Get(block.children[m].attrib, "name", None) = k}) = 1
        /\ \A m \in DOMAIN block.children :
               Get(block.children[m].attrib, "name", None) = k =>
                   "value" \in DOMAIN block.children[m].attrib

\* the document is sound up to its metadata
SoundButMetadata(document) ==
    /\ document.size <= MAXIMUM_XML_SIZE
    /\ document.wellformed
    /\ _validate_test_summary(document.root) = ""
    /\ _validate_test_cases(document.root) = ""

\* C6: a document whose root has a properties block (be it empty) validates if
\* and only if every required metadata key appears in the block exactly once
\* with a value; otherwise validation fails with a validation error.
C6_MetadataComplete ==
    (/\ FileValidated
     /\ SoundButMetadata(doc_list[1])
     /\ HasChild(doc_list[1].root, "properties"))
        => /\ ValidationRaised = "" <=>
                  ExactlyOnceWithValue(Find(doc_list[1].root, "properties"))
           /\ ValidationRaised \in {"", "JUnitXMLValidationError"}

\* the parsed cases of the aggregate, by place
AggregatePlaces == Places(test_result_json.test_cases)
AggregateCase(p) == CaseAt(test_result_json.test_cases, p)

\* the script folded one document that has a test case and returned
OneDocumentFolded ==
    returned = "json" /\ Len(roots) = 1 /\ TestCasesOf(roots[1]) # <<>>

XfailLabels == {"xfail_" \o l : l \in {"failure", "skipped", "error", "success"}}

LabelledFailure(c) == c["result"] \in {"failure", "error"}
LabelledFailureOrFlagged(c) == c["result"] \in {"failure", "error"} \/ c["error"]
LabelledSkipped(c) == c["result"] = "skipped"
Flagged(c) == c["error"]
LabelledXfail(c) == c["result"] \in XfailLabels
AnyCase(c) == TRUE

\* C10 as stated: failures counts the cases labelled failure or error or carrying
\* the error flag; skipped, errors and xfails count the cases labelled skipped,
\* carrying the error flag, and labelled with the xfail_ prefix.
C10_AsStated ==
    OneDocumentFolded =>
        /\ test_result_json.test_summary["failures"] =
              str_int(Cardinality({p \in AggregatePlaces : LabelledFailureOrFlagged(AggregateCase(p))}))
        /\ test_result_json.test_summary["skipped"] =
              str_int(Cardinality({p \in AggregatePlaces : LabelledSkipped(AggregateCase(p))}))
        /\ test_result_json.test_summary["errors"] =
              str_int(Cardinality({p \in AggregatePlaces : Flagged(AggregateCase(p))}))
        /\ test_result_json.test_summary["xfails"] =
              str_int(Cardinality({p \in AggregatePlaces : LabelledXfail(AggregateCase(p))}))

\* C10, amended: failures counts the cases whose label is exactly failure or
\* error, whatever their error flag; skipped counts the cases labelled skipped,
\* errors the cases carrying the error flag whatever their label, xfails the cases
\* labelled with the xfail_ prefix whatever the outcome, tests every case.
C10_SummaryCounters ==
    OneDocumentFolded =>
        /\ test_result_json.test_summary["failures"] =
              str_int(Cardinality({p \in AggregatePlaces : LabelledFailure(AggregateCase(p))}))
        /\ test_result_json.test_summary["skipped"] =
              str_int(Cardinality({p \in AggregatePlaces : LabelledSkipped(AggregateCase(p))}))
        /\ test_result_json.test_summary["errors"] =
              str_int(Cardinality({p \in AggregatePlaces : Flagged(AggregateCase(p))}))
        /\ test_result_json.test_summary["xfails"] =
              str_int(Cardinality({p \in AggregatePlaces : LabelledXfail(AggregateCase(p))}))
        /\ test_result_json.test_summary["tests"] =
              str_int(Cardinality({p \in AggregatePlaces : AnyCase(AggregateCase(p))}))

\* a document with a skipped case that carries the error flag, a failed case
\* and an xfail case: failures 1, errors 1
C10_Witness ==
    /\ OneDocumentFolded
    /\ \E c \in ParsedCases(test_result_json.test_cases) :
           c["result"] = "skipped" /\ c["error"] = TRUE
    /\ \E c \in ParsedCases(test_result_json.test_cases) : c["result"] = "xfail_failure"
    /\ test_result_json.test_summary["failures"] = <<"0">>
    /\ test_result_json.test_summary["errors"] = <<"1">>
    /\ test_result_json.test_summary["xfails"] = <<"1">>

-----------------------------------------------------------------------------
(* Claims about the archive                                                *)

Passes(document) == validate_junit_xml_file(document) = ""

\* the roots of the documents that pass validation, in the order of the archive
RECURSIVE PassingRoots(_)
PassingRoots(docs) ==
    IF docs = <<>> THEN <<>>
    ELSE (IF Passes(Head(docs)) THEN <<Head(docs).root>> ELSE <<>>) \o PassingRoots(Tail(docs))

\* two documents carry different values for a required key other than the timestamp
Disagree(a, b) ==
    \E k \in Range(REQUIRED_METADATA_PROPERTIES) \ {"timestamp"} :
        /\ k \in DOMAIN _parse_test_metadata(a.root)
        /\ k \in DOMAIN _parse_test_metadata(b.root)
        /\ _parse_test_metadata(a.root)[k] # _parse_test_metadata(b.root)[k]

\* the documents that pass validation agree: those that carry required metadata
\* carry the same, up to the timestamp
Agreeing ==
    \A a, b \in DOMAIN doc_list :
        (/\ Passes(doc_list[a]) /\ Passes(doc_list[b])
         /\ DOMAIN RootMetadata(doc_list[a].root) # {}
         /\ DOMAIN RootMetadata(doc_list[b].root) # {})
            => RootMetadata(doc_list[a].root) = RootMetadata(doc_list[b].root)

WithinCeiling == TotalSize(doc_list) <= MAXIMUM_XML_SIZE

\* validate_junit_xml_archive returned its roots / raised (the loop index stays
\* on the document it raised for)
ArchiveReturned == mode = "directory" /\ pc \in {"parse", "done"} /\ i > Len(doc_list)
ArchiveRaised == mode = "directory" /\ pc = "done" /\ i <= Len(doc_list)

C9_WitnessStrict ==
    /\ mode = "directory" /\ strict /\ WithinCeiling /\ Agreeing
    /\ ArchiveRaised /\ i > 1

\* C3: in lenient mode, an archive in which two documents that pass validation
\* disagree on a required metadata key other than the timestamp does not return:
\* the conflict is raised to the caller.
C3_LenientConflictPropagates ==
    (/\ mode = "directory" /\ ~strict /\ WithinCeiling
     /\ \E a, b \in DOMAIN doc_list :
            Passes(doc_list[a]) /\ Passes(doc_list[b]) /\ Disagree(doc_list[a], doc_list[b]))
        => ~ArchiveReturned

-----------------------------------------------------------------------------
(* Claims about the fold                                                   *)

\* the roots folded so far
Folded == 1..(j - 1)

\* the roots folded so far that carry metadata
Carriers == {k \in Folded : DOMAIN _parse_test_metadata(roots[k]) # {}}

First(S) == CHOOSE k \in S : \A m \in S : k <= m
Last(S) == CHOOSE k \in S : \A m \in S : m <= k

NonTimestampKeys == Range(REQUIRED_METADATA_PROPERTIES) \ {"timestamp"}

DiffersFromSeed(k) ==
    \E key \in NonTimestampKeys :
        Get(_parse_test_metadata(roots[k]), key, None) #
            Get(_parse_test_metadata(roots[First(Carriers)]), key, None)

RECURSIVE CasesInOrder(_, _, _)
CasesInOrder(f, k, n) ==
    IF k > n THEN <<>>
    ELSE Get(_parse_test_cases(roots[k]), f, <<>>) \o CasesInOrder(f, k + 1, n)

FeaturesFolded == UNION {DOMAIN _parse_test_cases(roots[k]) : k \in Folded}

\* C4: for every feature, the aggregate lists the cases of the documents folded
\* so far in the order the documents were folded, each document's cases in their
\* own order, none lost and none twice.
C4_DocumentOrder ==
    /\ DOMAIN test_result_json.test_cases = FeaturesFolded
    /\ \A f \in FeaturesFolded :
           test_result_json.test_cases[f] = CasesInOrder(f, 1, j - 1)

\* the instant a timestamp text stands for, with or without a fraction
Denotes(s) ==
    IF strptime(s).err = "" THEN strptime(s).val
    ELSE LET sec == CHOOSE sec \in Seconds : s = SecondsText(sec)
         IN  [sec |-> sec, micro |-> 0]

TimestampOf(k) == _parse_test_metadata(roots[k])["timestamp"]

\* every timestamp of the roots handed to the fold parses
TimestampsParse ==
    \A k \in DOMAIN roots :
        DOMAIN _parse_test_metadata(roots[k]) # {} => strptime(TimestampOf(k)).err = ""

\* C7: when every timestamp parses, the fold of any number of documents raises
\* nothing, and the aggregate's timestamp stands for the earliest timestamp of
\* the documents folded so far; documents without metadata change nothing.
C7_EarliestTimestamp ==
    TimestampsParse =>
        /\ raised = ""
        /\ Carriers # {} =>
               /\ \E k \in Carriers :
                      Denotes(test_result_json.test_metadata["timestamp"]) =
                          strptime(TimestampOf(k)).val
               /\ \A k \in Carriers :
                      min_datetime(Denotes(test_result_json.test_metadata["timestamp"]),
                                   strptime(TimestampOf(k)).val) =
                          Denotes(test_result_json.test_metadata["timestamp"])

\* the summary of the k-th root on its own
SummaryOf(k) == _extract_test_summary(_parse_test_cases(roots[k])).val

SummaryFields == REQUIRED_TESTSUITE_ATTRIBUTES \o EXTRA_XML_SUMMARY_ATTRIBUTES

\* the number a summary holds for a field (0 when it has no such field): an
\* integer, or the thousandths of the time
FieldOf(summary, n) ==
    IF SummaryFields[n][1] \notin DOMAIN summary THEN 0
    ELSE IF SummaryFields[n][2] = "int" THEN int(summary[SummaryFields[n][1]]).val
    ELSE float(summary[SummaryFields[n][1]]).val

RECURSIVE FieldTotal(_, _)
FieldTotal(n, k) == IF k = 0 THEN 0 ELSE FieldTotal(n, k - 1) + FieldOf(SummaryOf(k), n)

\* the summaries of the first k roots of an order, folded
RECURSIVE FoldSummaries(_, _)
FoldSummaries(order, k) ==
    IF k = 0 THEN EmptyDict
    ELSE _update_test_summary(FoldSummaries(order, k - 1), SummaryOf(order[k])).val

OtherTotals == [time |-> <<"0", ".", "0">>, tests |-> <<"9", "9">>, skipped |-> <<"7">>,
                failures |-> <<"0">>, errors |-> <<"3">>]

Redeclared(root) == [root EXCEPT !.attrib = OtherTotals]

\* the first k of some roots folded from the empty aggregate: [err, val]
RECURSIVE FoldAll(_, _)
FoldAll(rs, k) ==
    IF k = 0 THEN [err |-> "", val |-> EmptyResult]
    ELSE LET before == FoldAll(rs, k - 1)
         IN  IF before.err # "" THEN before ELSE FoldRoot(before.val, rs[k])

\* the number the summary holds for tests, 0 when the summary is empty
TestsCounter(summary) == IF "tests" \in DOMAIN summary THEN int(summary["tests"]).val ELSE 0

\* the tests the roots folded so far declare, added up
RECURSIVE DeclaredTests(_)
DeclaredTests(k) ==
    IF k = 0 THEN 0 ELSE DeclaredTests(k - 1) + int(roots[k].attrib["tests"]).val

\* C12: after every step of the fold the tests counter of the aggregate summary
\* (0 when the summary is empty) is the number of cases the aggregate holds under
\* its features, and the same roots with other declared totals fold to the same
\* summary
C12_TestsCountCases ==
    /\ TestsCounter(test_result_json.test_summary) = Cardinality(AggregatePlaces)
    /\ LET redeclared == FoldAll([k \in DOMAIN roots |-> Redeclared(roots[k])], j - 1)
       IN  /\ redeclared.err = ""
           /\ redeclared.val.test_summary = test_result_json.test_summary

\* two roots folded that declare 4 tests each and hold 5 and 2 cases: tests "7"
C12_Witness ==
    /\ j = 3
    /\ DeclaredTests(2) = 8
    /\ Cardinality(Places(_parse_test_cases(roots[1]))) = 5
    /\ Cardinality(Places(_parse_test_cases(roots[2]))) = 2
    /\ test_result_json.test_summary["tests"] = <<"7">>

-----------------------------------------------------------------------------
(* Claims about what the script returns for accepted documents             *)

\* validation returned its roots, and they went to parse_test_result
Accepted ==
    /\ roots # <<>> /\ pc \in {"parse", "done"}
    /\ mode = "directory" => i > Len(doc_list)

\* the accepted roots that carry metadata
AcceptedCarriers == {k \in DOMAIN roots : DOMAIN _parse_test_metadata(roots[k]) # {}}

\* C11: in every model parse_test_result returns, of one document or of several,
\* test_metadata holds only required metadata keys, each with a non-empty value
C11_OnlyRequiredKeys ==
    returned = "json" =>
        /\ DOMAIN test_result_json.test_metadata \subseteq Range(REQUIRED_METADATA_PROPERTIES)
        /\ \A k \in DOMAIN test_result_json.test_metadata :
               test_result_json.test_metadata[k] # ""

\* what holds of the keys: with one document carrying metadata the model has
\* every named or unnamed property of it that has a value; with more, the
\* required keys and no other
C11_KeysByCarriers ==
    returned = "json" =>
        /\ Cardinality(AcceptedCarriers) = 1 =>
               test_result_json.test_metadata =
                   _parse_test_metadata(roots[First(AcceptedCarriers)])
        /\ Cardinality(AcceptedCarriers) > 1 =>
               DOMAIN test_result_json.test_metadata = Range(REQUIRED_METADATA_PROPERTIES)
        /\ \A k \in DOMAIN test_result_json.test_metadata :
               test_result_json.test_metadata[k] # ""

\* one accepted document with a property named color: the model has the key
C11_UnrecognizedKept ==
    /\ returned = "json" /\ Len(roots) = 1
    /\ "color" \in DOMAIN test_result_json.test_metadata

\* the accepted roots whose metadata has a required property with value=""
EmptyValued ==
    {k \in AcceptedCarriers :
        ~(Range(REQUIRED_METADATA_PROPERTIES) \subseteq DOMAIN _parse_test_metadata(roots[k]))}

\* C13: when every root passed validation and the archive's comparison of the
\* metadata, required properties with value="" included, parse_test_result
\* raises nothing: it returns the aggregate
C13_FoldClosed == Accepted => raised = ""

\* what holds of the abort: it is a KeyError, two of the accepted roots carry
\* metadata and one of them has a required property with value=""
C13_AbortIsKeyError ==
    Accepted /\ raised # "" =>
        /\ raised = "KeyError"
        /\ Cardinality(AcceptedCarriers) > 1
        /\ EmptyValued # {}

\* two documents from a strict archive, both with asic="", and the KeyError
C13_KeyErrorReached ==
    /\ Accepted /\ mode = "directory" /\ strict /\ Len(roots) = 2 /\ Len(doc_list) = 2
    /\ EmptyValued = {1, 2}
    /\ "timestamp" \in DOMAIN _parse_test_metadata(roots[1])
    /\ "timestamp" \in DOMAIN _parse_test_metadata(roots[2])
    /\ raised = "KeyError"

====
